---- MODULE Spec2Model ----
(***************************************************************************)
(* Model of the IRCC portal update checker: main() of                      *)
(* src/src/check_ircc_updates.py (the poll loop), check_for_updates,       *)
(* take_screenshot, send_email, setup_webdriver and                        *)
(* purge_screenshots.purge_old_screenshots.                                *)
(*                                                                         *)
(* The portal, the browser, the mail server and the file system are the    *)
(* environment: every call into them has the outcomes the code can see     *)
(* (a value, a TimeoutException, another exception).                       *)
(***************************************************************************)
EXTENDS Integers, Sequences, FiniteSets, TLC

\* ------------------------------------------------------------------ bounds
MaxCycles == 3      \* check cycles explored
MaxLen == 2         \* longest status text explored
MaxOld == 2         \* screenshots already in the directory at start

\* ------------------------------------------------------- program constants
CHECK_INTERVAL_HOURS == 1
CHECK_INTERVAL_SECONDS == CHECK_INTERVAL_HOURS * 60 * 60
REINITIALIZATION_INTERVAL == CHECK_INTERVAL_SECONDS \div 2
PURGE_SCREENSHOTS == TRUE
NUM_SCREENSHOTS_TO_KEEP == 1

\* ------------------------------------------------------------ status values
\* A status text is a sequence of characters; " " stands for any whitespace.
Chars == {"x", " "}
RECURSIVE SeqsUpTo(_)
SeqsUpTo(n) ==
    IF n = 0 THEN {<<>>}
    ELSE LET S == SeqsUpTo(n - 1)
         IN  S \cup {Append(s, c) : s \in {t \in S : Len(t) = n - 1}, c \in Chars}
StatusValues == SeqsUpTo(MaxLen)

IsSpace(c) == c = " "

\* str.strip(): drop leading and trailing whitespace
RECURSIVE LStrip(_)
LStrip(s) == IF s /= <<>> /\ IsSpace(Head(s)) THEN LStrip(Tail(s)) ELSE s
RECURSIVE RStrip(_)
RStrip(s) ==
    IF s /= <<>> /\ IsSpace(s[Len(s)]) THEN RStrip(SubSeq(s, 1, Len(s) - 1)) ELSE s
Strip(s) == RStrip(LStrip(s))

\* ------------------------------------------------------------------- state
VARIABLES
    pc,                 \* position in main()
    i,                  \* main: number of the update check
    j,                  \* main: number of the WebDriver
    elapsed,            \* time.time() - start_time
    driver,             \* main: the session bound to the name `driver`
    made,               \* number of sessions created so far
    live,               \* sessions created and not yet quit
    cp,                 \* LAST_UPDATED_FILE: [exists, content]
    cp0,                \* LAST_UPDATED_FILE at the start of the current cycle
    dirExists,          \* SCREENSHOTS_DIR exists
    files,              \* regular files of SCREENSHOTS_DIR: [name, mt]
    updated_date,       \* check_for_updates: text read from the page
    update,             \* check_for_updates: the comparison's result
    exc,                \* exception in flight ("none" when there is none)
    exitCode,           \* process exit status, -1 while running
    trace,              \* what the process has done, in order
    keep,               \* purge_old_screenshots: the argument num_to_keep
    before,             \* the directory listings at the start of the calls
                        \* of purge_old_screenshots made on their own
    runs                \* one run of each script variant on the same portal

vars == <<pc, i, j, elapsed, driver, made, live, cp, cp0, dirExists, files,
          updated_date, update, exc, exitCode, trace, keep, before, runs>>

\* What is observed of the run of a script: its checkpoint file, the subjects
\* of the mails it has sent, whether the process still runs, and the number
\* of cycles it has made.
Variants == {"alpha", "root", "src"}
NewRun(file) == [cp |-> file, mails |-> <<>>, running |-> TRUE, n |-> 0]
NoRuns == [v \in Variants |-> NewRun([exists |-> FALSE, content |-> <<>>])]

Ev(op, sid, arg, res, val) ==
    [op |-> op, sid |-> sid, arg |-> arg, res |-> res, val |-> val]

\* --------------------------------------------------------- the directory
GITKEEP == "gitkeep"

NextMt(fs) == IF fs = {} THEN 1
              ELSE (CHOOSE m \in {f.mt : f \in fs} : \A f \in fs : f.mt <= m) + 1

\* files.sort(key=lambda x: x[1])
RECURSIVE SortByMtime(_)
SortByMtime(fs) ==
    IF fs = {} THEN <<>>
    ELSE LET o == CHOOSE f \in fs : \A g \in fs : f.mt <= g.mt
         IN  <<o>> \o SortByMtime(fs \ {o})

\* mutant: the .gitkeep file is not allowed for in the loop condition
RECURSIVE PurgeLoop_NoPlaceholder(_, _)
PurgeLoop_NoPlaceholder(sorted, num_to_keep) ==
    IF Len(sorted) > num_to_keep
    THEN PurgeLoop_NoPlaceholder(Tail(sorted), num_to_keep)
    ELSE sorted

\* mutant: an if in the place of the while, one file removed per call
PurgeLoop_Once(sorted, num_to_keep) ==
    IF Len(sorted) - 1 > num_to_keep THEN Tail(sorted) ELSE sorted

\* while (len(files) - 1) > num_to_keep: files.pop(0); os.remove(...)
RECURSIVE PurgeLoop(_, _)
PurgeLoop(sorted, num_to_keep) ==
    IF Len(sorted) - 1 > num_to_keep THEN PurgeLoop(Tail(sorted), num_to_keep)
    ELSE sorted

purge_old_screenshots(fs, num_to_keep) ==
    LET kept == PurgeLoop(SortByMtime(fs), num_to_keep)
    IN  {kept[k] : k \in 1..Len(kept)}

InitialDirs ==
    {{[name |-> "old", mt |-> m] : m \in 1..n} : n \in 0..MaxOld}
    \cup
    {{[name |-> "old", mt |-> IF m < g THEN m ELSE m + 1] : m \in 1..n}
        \cup {[name |-> GITKEEP, mt |-> g]} : <<n, g>> \in
            {<<n, g>> \in (0..MaxOld) \X (1..MaxOld + 1) : g <= n + 1}}

\* -------------------------------------------------------------------- Init
Init ==
    /\ pc = "start"
    /\ i = 1
    /\ j = 1
    /\ elapsed = 0
    /\ driver = 0
    /\ made = 0
    /\ live = {}
    /\ cp \in {[exists |-> FALSE, content |-> <<>>]}
              \cup {[exists |-> TRUE, content |-> v] : v \in StatusValues}
    /\ cp0 = cp
    /\ dirExists \in BOOLEAN
    /\ files \in (IF dirExists THEN InitialDirs ELSE {{}})
    /\ updated_date = <<>>
    /\ update = FALSE
    /\ exc = "none"
    /\ exitCode = -1
    /\ trace = <<>>
    /\ keep = NUM_SCREENSHOTS_TO_KEEP
    /\ before = <<>>
    /\ runs = NoRuns

\* ------------------------------------------------------- setup_webdriver
\* webdriver.Chrome(...) may raise (no session exists then); maximize_window()
\* runs before the try block and may raise with the session already created.
SetupOutcomes == {"ok", "chrome_fail", "maximize_fail"}

\* What a call on a session can do: a session that was quit only raises.
\* driver.save_screenshot(path) raises when the browser cannot be asked; when
\* the image cannot be written to path it returns False and writes no file
\* ("nofile"), and take_screenshot does not look at what it returns.
LoginOutcomes(d) == IF d \in live THEN {"ok", "timeout", "other"} ELSE {"other"}
ShotOutcomes(d) == IF d \in live THEN {"ok", "nofile", "raise"} ELSE {"raise"}
EmailOutcomes == {"sent", "failed"}
\* send_email opens screenshot_path inside its try block: without the file the
\* mail is not sent
MailOutcomes(s) == IF s = "nofile" THEN {"failed"} ELSE EmailOutcomes
WriteOutcomes == {"ok", "fail", "trunc"}

\* the with statement of main() is entered: first session, start_time
Start ==
    /\ UNCHANGED <<keep, before, runs>>
    /\ pc = "start"
    /\ \E r \in SetupOutcomes :
        IF r = "ok"
        THEN /\ made' = made + 1
             /\ live' = live \cup {made + 1}
             /\ driver' = made + 1
             /\ trace' = Append(trace, Ev("create", made + 1, "", "ok", <<>>))
             /\ elapsed' = 0
             /\ pc' = "loop_top"
             /\ UNCHANGED <<exc, exitCode>>
        ELSE /\ made' = IF r = "maximize_fail" THEN made + 1 ELSE made
             /\ live' = IF r = "maximize_fail" THEN live \cup {made + 1} ELSE live
             /\ trace' = IF r = "maximize_fail"
                         THEN trace \o <<Ev("create", made + 1, "", r, <<>>),
                                         Ev("exit", 0, "", "1", <<>>)>>
                         ELSE Append(trace, Ev("exit", 0, "", "1", <<>>))
             /\ exc' = "Exception"
             /\ exitCode' = 1
             /\ pc' = "exited"
             /\ UNCHANGED <<driver, elapsed>>
    /\ UNCHANGED <<i, j, cp, cp0, dirExists, files, updated_date, update>>

\* mutant: the comparison of the reinitialisation test inverted
NeedsReinit_Inverted(e) == e < REINITIALIZATION_INTERVAL

\* if time.time() - start_time > REINITIALIZATION_INTERVAL
NeedsReinit(e) == e > REINITIALIZATION_INTERVAL

\* top of the while loop: one more update check begins
LoopTop ==
    /\ UNCHANGED <<keep, before, runs>>
    /\ pc = "loop_top"
    /\ i <= MaxCycles
    /\ trace' = Append(trace, Ev("cycle", i, "", "", <<>>))
    /\ cp0' = cp
    /\ pc' = IF NeedsReinit(elapsed) THEN "reinit" ELSE "login"
    /\ UNCHANGED <<i, j, elapsed, driver, made, live, cp, dirExists, files,
                   updated_date, update, exc, exitCode>>

\* mutant: the session in use is not quit before the new one is made
QuitAtReinit_Skipped(sessions, d) == sessions

\* if "driver" in locals(): driver.quit()
QuitAtReinit(sessions, d) == sessions \ {d}

\* driver.quit(); with setup_webdriver() as (driver, wait): log; start_time = now
\* The inner with block ends right after the log line, so its finally clause
\* quits the session it has just bound to `driver`.
Reinit ==
    /\ UNCHANGED <<keep, before, runs>>
    /\ pc = "reinit"
    /\ j' = j + 1
    /\ \E r \in SetupOutcomes :
        LET new == made + 1
            q   == Ev("quit", driver, "", "reinit", <<>>)
        IN
        IF r = "ok"
        THEN /\ made' = new
             /\ live' = QuitAtReinit(live, driver)
             /\ driver' = new
             /\ trace' = trace \o <<q, Ev("create", new, "", "ok", <<>>),
                                     Ev("quit", new, "", "with", <<>>)>>
             /\ elapsed' = 0
             /\ pc' = "login"
             /\ UNCHANGED exc
        ELSE /\ made' = IF r = "maximize_fail" THEN new ELSE made
             /\ live' = IF r = "maximize_fail"
                        THEN QuitAtReinit(live, driver) \cup {new}
                        ELSE QuitAtReinit(live, driver)
             /\ trace' = IF r = "maximize_fail"
                         THEN trace \o <<q, Ev("create", new, "", r, <<>>)>>
                         ELSE Append(trace, q)
             /\ exc' = "Exception"
             /\ pc' = "unwind"
             /\ UNCHANGED <<driver, elapsed>>
    /\ UNCHANGED <<i, cp, cp0, dirExists, files, updated_date, update, exitCode>>

LOGIN_URL == "https://tracker-suivi.apps.cic.gc.ca/en/login"
DASHBOARD_URL == "https://tracker-suivi.apps.cic.gc.ca/en/dashboard"
\* where the browser can be two seconds after the form was submitted
PageUrls == {DASHBOARD_URL, LOGIN_URL, "https://tracker-suivi.apps.cic.gc.ca/en/error"}

\* mutant: the login returns wherever the browser is afterwards
AfterSubmit_NoUrlCheck(current_url) == "ok"

\* if driver.current_url == DASHBOARD_URL: return; else: raise Exception(...)
AfterSubmit(current_url) == IF current_url = DASHBOARD_URL THEN "ok" ELSE "other"

\* login(driver, wait): TimeoutException from wait.until, Exception when the
\* browser is not on DASHBOARD_URL afterwards (or the session is unusable)
Login ==
    /\ UNCHANGED <<keep, before, runs>>
    /\ pc = "login"
    /\ \E t \in LoginOutcomes(driver), u \in PageUrls :
        LET submitted == t = "ok"
            r == IF submitted THEN AfterSubmit(u) ELSE t
        IN
        /\ trace' = Append(trace, Ev("login", driver,
                                     IF submitted THEN u ELSE "", r, <<>>))
        /\ exc' = CASE r = "ok" -> "none"
                    [] r = "timeout" -> "TimeoutException"
                    [] OTHER -> "Exception"
        /\ pc' = IF r = "ok" THEN "check" ELSE "login_failed"
    /\ UNCHANGED <<i, j, elapsed, driver, made, live, cp, cp0, dirExists, files,
                   updated_date, update, exitCode>>

\* take_screenshot: the directory is made first, then the browser is asked
ShotFiles(tag, r) ==
    IF r = "ok" THEN files \cup {[name |-> tag, mt |-> NextMt(files)]} ELSE files

\* mutant: the login is tried again instead of leaving the loop
AfterLoginFailure_Retry == "login"

\* sys.exit(...) in an except clause of the login try statement: no finally
\* clause belongs to that statement, the exception leaves the loop
AfterLoginFailure == "unwind"

\* except TimeoutException / except Exception after login():
\* take_screenshot(driver); send_email("IRCC Portal Script Error", ...); sys.exit
LoginFailed ==
    /\ UNCHANGED <<keep, before, runs>>
    /\ pc = "login_failed"
    /\ \E s \in ShotOutcomes(driver), m \in EmailOutcomes :
        /\ m \in MailOutcomes(s)
        /\ dirExists' = TRUE
        /\ files' = ShotFiles("no_update", s)
        /\ IF s /= "raise"
           THEN /\ trace' = trace \o <<Ev("shot", driver, "no_update", s, <<>>),
                                        Ev("email", 0, "ERROR", m, <<>>)>>
                /\ exc' = "SystemExit"
                /\ pc' = AfterLoginFailure
           ELSE /\ trace' = Append(trace, Ev("shot", driver, "no_update", s, <<>>))
                /\ exc' = "Exception"
                /\ pc' = "unwind"
    /\ UNCHANGED <<i, j, elapsed, driver, made, live, cp, cp0,
                   updated_date, update, exitCode>>

\* ------------------------------------------------------ check_for_updates
ReadOutcomes(d) ==
    IF d \in live
    THEN {[res |-> "ok", val |-> v] : v \in StatusValues}
         \cup {[res |-> "timeout", val |-> <<>>], [res |-> "other", val |-> <<>>]}
    ELSE {[res |-> "other", val |-> <<>>]}

\* updated_date = wait.until(presence_of_element_located("date-text")).text
CheckRead ==
    /\ UNCHANGED <<keep, before, runs>>
    /\ pc = "check"
    /\ \E r \in ReadOutcomes(driver) :
        /\ trace' = Append(trace, Ev("read", driver, "", r.res, r.val))
        /\ updated_date' = IF r.res = "ok" THEN r.val ELSE updated_date
        /\ exc' = CASE r.res = "ok" -> "none"
                    [] r.res = "timeout" -> "TimeoutException"
                    [] OTHER -> "Exception"
        /\ pc' = IF r.res = "ok" THEN "compare" ELSE "check_failed"
    /\ UNCHANGED <<i, j, elapsed, driver, made, live, cp, cp0, dirExists, files,
                   update, exitCode>>

\* with open(LAST_UPDATED_FILE, "r") as f: last_updated_date = f.read().strip()
ReadCheckpoint(file) == Strip(file.content)

\* mutant: the page text is trimmed before the comparison
IsUpdate_TrimBoth(new_date, last_updated_date) == Strip(new_date) /= last_updated_date

\* if updated_date != last_updated_date
IsUpdate(new_date, last_updated_date) == new_date /= last_updated_date

\* mutant: the new value is written first
AfterCompare_WriteFirst(upd) == IF upd THEN "write" ELSE "notify"

\* both branches of the comparison begin with take_screenshot and
\* send_notification; the write comes after them in the update branch
AfterCompare(upd) == "notify"

\* open() raises FileNotFoundError when the file is missing; nothing in
\* check_for_updates catches it
CheckCompare ==
    /\ UNCHANGED <<keep, before, runs>>
    /\ pc = "compare"
    /\ IF cp.exists
       THEN /\ trace' = Append(trace, Ev("ckread", 0, "", "ok", ReadCheckpoint(cp)))
            /\ update' = IsUpdate(updated_date, ReadCheckpoint(cp))
            /\ pc' = AfterCompare(IsUpdate(updated_date, ReadCheckpoint(cp)))
            /\ UNCHANGED exc
       ELSE /\ trace' = Append(trace, Ev("ckread", 0, "", "notfound", <<>>))
            /\ exc' = "Exception"
            /\ pc' = "check_failed"
            /\ UNCHANGED update
    /\ UNCHANGED <<i, j, elapsed, driver, made, live, cp, cp0, dirExists, files,
                   updated_date, exitCode>>

ShotTag(upd) == IF upd THEN "update" ELSE "no_update"
NotificationKind(upd) == IF upd THEN "UPDATE" ELSE "NO_UPDATE"

\* mutant: a transport error of send_email is treated as a failed check
AfterNotification_Escalates(m, upd) ==
    IF m = "failed" THEN "check_failed" ELSE IF upd THEN "write" ELSE "finally"

\* send_email catches every exception of the attachment and of the transport
\* and returns: check_for_updates goes on the same way whatever m is
AfterNotification(m, upd) == IF upd THEN "write" ELSE "finally"

\* screenshot_path = take_screenshot(driver, update)
\* send_notification(updated_date, update, screenshot_path)
CheckNotify ==
    /\ UNCHANGED <<keep, before, runs>>
    /\ pc = "notify"
    /\ \E s \in ShotOutcomes(driver), m \in EmailOutcomes :
        /\ m \in MailOutcomes(s)
        /\ dirExists' = TRUE
        /\ files' = ShotFiles(ShotTag(update), s)
        /\ IF s /= "raise"
           THEN /\ trace' = trace \o
                    <<Ev("shot", driver, ShotTag(update), s, <<>>),
                      Ev("email", 0, NotificationKind(update), m, updated_date)>>
                /\ pc' = AfterNotification(m, update)
                /\ UNCHANGED exc
           ELSE /\ trace' = Append(trace, Ev("shot", driver, ShotTag(update), s, <<>>))
                /\ exc' = "Exception"
                /\ pc' = "check_failed"
    /\ UNCHANGED <<i, j, elapsed, driver, made, live, cp, cp0,
                   updated_date, update, exitCode>>

\* f.write(updated_date)
WriteCheckpoint(new_date) == [exists |-> TRUE, content |-> new_date]

\* open(LAST_UPDATED_FILE, "w") empties the file that is there
Truncate(file) == [exists |-> TRUE, content |-> <<>>]

\* with open(LAST_UPDATED_FILE, "w") as f: the file is opened for writing.
\* "fail": open() raises and the file is as before; otherwise open() has
\* emptied the file, and stays so until the text is written out
CheckWrite ==
    /\ UNCHANGED <<keep, before, runs>>
    /\ pc = "write"
    /\ \E w \in WriteOutcomes \ {"trunc"} :
        IF w = "ok"
        THEN /\ cp' = Truncate(cp)
             /\ pc' = "write_close"
             /\ UNCHANGED <<trace, exc>>
        ELSE /\ trace' = Append(trace, Ev("ckwrite", 0, "", w, updated_date))
             /\ exc' = "Exception"
             /\ pc' = "check_failed"
             /\ UNCHANGED cp
    /\ UNCHANGED <<i, j, elapsed, driver, made, live, cp0, dirExists, files,
                   updated_date, update, exitCode>>

\* f.write(updated_date) and the close at the end of the with block: the text
\* reaches the file when the buffer is flushed. "trunc": the write or the
\* flush raises and the file stays empty
CheckWriteClose ==
    /\ UNCHANGED <<keep, before, runs>>
    /\ pc = "write_close"
    /\ \E w \in WriteOutcomes \ {"fail"} :
        /\ trace' = Append(trace, Ev("ckwrite", 0, "", w, updated_date))
        /\ cp' = IF w = "ok" THEN WriteCheckpoint(updated_date) ELSE cp
        /\ exc' = IF w = "ok" THEN exc ELSE "Exception"
        /\ pc' = IF w = "ok" THEN "finally" ELSE "check_failed"
    /\ UNCHANGED <<i, j, elapsed, driver, made, live, cp0, dirExists, files,
                   updated_date, update, exitCode>>

\* except TimeoutException / except Exception after check_for_updates():
\* take_screenshot(driver); send_email("IRCC Portal Script Error", ...); sys.exit
\* The finally clause of this try statement runs before the exception leaves.
CheckFailed ==
    /\ UNCHANGED <<keep, before, runs>>
    /\ pc = "check_failed"
    /\ \E s \in ShotOutcomes(driver), m \in EmailOutcomes :
        /\ m \in MailOutcomes(s)
        /\ dirExists' = TRUE
        /\ files' = ShotFiles("no_update", s)
        /\ IF s /= "raise"
           THEN /\ trace' = trace \o <<Ev("shot", driver, "no_update", s, <<>>),
                                        Ev("email", 0, "ERROR", m, <<>>)>>
                /\ exc' = "SystemExit"
           ELSE /\ trace' = Append(trace, Ev("shot", driver, "no_update", s, <<>>))
                /\ exc' = "Exception"
        /\ pc' = "finally"
    /\ UNCHANGED <<i, j, elapsed, driver, made, live, cp, cp0,
                   updated_date, update, exitCode>>

\* ------------------------------------------------------------ finally clause
\* os.listdir raises when the directory is missing; os.remove can raise
PurgeOutcomes ==
    IF ~dirExists THEN {"raise"}
    ELSE IF Cardinality(files) - 1 > NUM_SCREENSHOTS_TO_KEEP THEN {"ok", "raise"}
    ELSE {"ok"}

\* mutant: the sleep comes before the purge
FinallyEvents_SleepFirst(p) ==
    IF p = "ok"
    THEN <<Ev("sleep", 0, "", "", <<>>), Ev("purge", 0, "", p, <<>>)>>
    ELSE <<Ev("sleep", 0, "", "", <<>>)>>

\* what the finally clause does when the purge raises nothing: the purge
\* (unless it is switched off), then the sleep
FinallyEvents(p) ==
    IF p = "ok"
    THEN <<Ev("purge", 0, "", p, <<>>), Ev("sleep", 0, "", "", <<>>)>>
    ELSE <<Ev("sleep", 0, "", "", <<>>)>>

\* pshots(SCREENSHOTS_DIR, NUM_SCREENSHOTS_TO_KEEP) if PURGE_SCREENSHOTS else None
\* time.sleep(CHECK_INTERVAL_SECONDS); then i += 1 unless an exception is in flight
Finally ==
    /\ UNCHANGED <<keep, before, runs>>
    /\ pc = "finally"
    /\ \E p \in (IF PURGE_SCREENSHOTS THEN PurgeOutcomes ELSE {"skip"}) :
        IF p = "raise"
        THEN /\ trace' = Append(trace, Ev("purge", 0, "", p, <<>>))
             /\ exc' = "Exception"
             /\ pc' = "unwind"
             /\ UNCHANGED <<files, elapsed, i>>
        ELSE /\ files' = IF p = "ok"
                         THEN purge_old_screenshots(files, NUM_SCREENSHOTS_TO_KEEP)
                         ELSE files
             /\ trace' = trace \o FinallyEvents(p)
             /\ elapsed' = elapsed + CHECK_INTERVAL_SECONDS
             /\ pc' = IF exc = "none" THEN "loop_top" ELSE "unwind"
             /\ i' = IF exc = "none" THEN i + 1 ELSE i
             /\ UNCHANGED exc
    /\ UNCHANGED <<j, driver, made, live, cp, cp0, dirExists,
                   updated_date, update, exitCode>>

\* sys.exit("...") and an uncaught exception both end the process with status 1
ExitStatus(e) == IF e = "none" THEN 0 ELSE 1

\* the exception leaves the with block of main(): the finally clause of the
\* first setup_webdriver() runs driver.quit() on the first session
ExitMain ==
    /\ UNCHANGED <<keep, before, runs>>
    /\ pc = "unwind"
    /\ live' = live \ {1}
    /\ exitCode' = ExitStatus(exc)
    /\ trace' = trace \o <<Ev("quit", 1, "", "with", <<>>),
                            Ev("exit", 0, "", "1", <<>>)>>
    /\ pc' = "exited"
    /\ UNCHANGED <<i, j, elapsed, driver, made, cp, cp0, dirExists, files,
                   updated_date, update, exc>>

Next ==
    \/ Start
    \/ LoopTop
    \/ Reinit
    \/ Login
    \/ LoginFailed
    \/ CheckRead
    \/ CheckCompare
    \/ CheckNotify
    \/ CheckWrite
    \/ CheckWriteClose
    \/ CheckFailed
    \/ Finally
    \/ ExitMain

Spec == Init /\ [][Next]_vars

\* ------------------------------- purge_old_screenshots called on its own
MaxFiles == 4       \* screenshots in the directory handed to the call
MaxKeep == 3        \* largest num_to_keep explored
MaxCalls == 3       \* calls made on one directory

\* Directories of up to MaxFiles screenshots with distinct modification times,
\* without the .gitkeep file or with it at any place in the order of the times.
PurgeDirs ==
    {{[name |-> "old", mt |-> m] : m \in 1..n} : n \in 0..MaxFiles}
    \cup
    {{[name |-> "old", mt |-> IF m < g THEN m ELSE m + 1] : m \in 1..n}
        \cup {[name |-> GITKEEP, mt |-> g]} : <<n, g>> \in
            {<<n, g>> \in (0..MaxFiles) \X (1..MaxFiles + 1) : g <= n + 1}}

\* os.listdir raises when the directory is missing; os.remove can raise
PurgeCallOutcomes(exists, fs, k) ==
    IF ~exists THEN {"raise"}
    ELSE IF Cardinality(fs) - 1 > k THEN {"ok", "raise"}
    ELSE {"ok"}

InitPurge ==
    /\ pc = "purge_idle"
    /\ i = 1
    /\ j = 1
    /\ elapsed = 0
    /\ driver = 0
    /\ made = 0
    /\ live = {}
    /\ cp = [exists |-> FALSE, content |-> <<>>]
    /\ cp0 = cp
    /\ dirExists \in BOOLEAN
    /\ files \in (IF dirExists THEN PurgeDirs ELSE {{}})
    /\ updated_date = <<>>
    /\ update = FALSE
    /\ exc = "none"
    /\ exitCode = -1
    /\ trace = <<>>
    /\ keep \in 0..MaxKeep
    /\ before = <<>>
    /\ runs = NoRuns

\* purge_old_screenshots(dir_path, num_to_keep)
PurgeCall ==
    /\ pc = "purge_idle"
    /\ Len(trace) < MaxCalls
    /\ \E r \in PurgeCallOutcomes(dirExists, files, keep) :
        /\ trace' = Append(trace, Ev("purge", 0, "", r, <<>>))
        /\ files' = IF r = "ok" THEN purge_old_screenshots(files, keep) ELSE files
    /\ before' = Append(before, files)
    /\ UNCHANGED <<pc, i, j, elapsed, driver, made, live, cp, cp0, dirExists,
                   updated_date, update, exc, exitCode, keep, runs>>

\* a screenshot is saved between two calls (take_screenshot)
AddScreenshot ==
    /\ pc = "purge_idle"
    /\ Len(trace) < MaxCalls
    /\ dirExists' = TRUE
    /\ files' = ShotFiles("no_update", "ok")
    /\ trace' = Append(trace, Ev("shot", 0, "no_update", "ok", <<>>))
    /\ UNCHANGED <<pc, i, j, elapsed, driver, made, live, cp, cp0,
                   updated_date, update, exc, exitCode, keep, before, runs>>

NextPurge ==
    \/ PurgeCall
    \/ AddScreenshot

PurgeSpec == InitPurge /\ [][NextPurge]_vars

\* ------------------------------------------------ the three script variants
\* src/check_ircc_updates_alpha.py ("alpha"), src/check_ircc_updates.py ("root")
\* and src/src/check_ircc_updates.py ("src") run against the same portal from
\* the same checkpoint file. Screenshots, mail transport, the checkpoint write
\* and the purge succeed whenever the session they need is usable.
MaxVariantCycles == 2

\* what the portal does in one cycle: the login, then the status read
PortalOutcomes ==
    {[login |-> l, read |-> r] :
        l \in {"ok", "timeout", "other"},
        r \in {[res |-> "ok", val |-> v] : v \in StatusValues}
              \cup {[res |-> "timeout", val |-> <<>>],
                    [res |-> "other", val |-> <<>>]}}

\* send_email("IRCC Portal Script Error", ...) of the except clauses
ERROR_SUBJECT == "IRCC Portal Script Error"

\* send_notification of src/check_ircc_updates.py
RootSubjects == [update |-> "IRCC Portal Update", no_update |-> "IRCC Portal Status"]
\* send_notification of src/src/check_ircc_updates.py
SrcSubjects ==
    [update |-> "IRCC Portal UPDATE!!", no_update |-> "IRCC Portal Sem to Sem :-("]

\* One pass of the while loop of main(), the same statements in "root" and in
\* "src". From the second pass on the loop re-initialises: the session made
\* by the inner with block is quit at once, login raises on it and so does
\* take_screenshot in the except clause, which leaves main() without a mail.
\* In the first pass a failed login, a failed status read and a missing
\* checkpoint file each end in the ERROR mail and sys.exit.
PollLoopCycle(st, in, subjects) ==
    LET sent(m) == Append(st.mails, m)
        stop(ms) == [st EXCEPT !.mails = ms, !.running = FALSE, !.n = @ + 1]
    IN
    IF NeedsReinit(st.n * CHECK_INTERVAL_SECONDS) THEN stop(st.mails)
    ELSE IF in.login /= "ok" THEN stop(sent(ERROR_SUBJECT))
    ELSE IF in.read.res /= "ok" THEN stop(sent(ERROR_SUBJECT))
    ELSE IF ~st.cp.exists THEN stop(sent(ERROR_SUBJECT))
    ELSE IF IsUpdate(in.read.val, ReadCheckpoint(st.cp))
    THEN [st EXCEPT !.mails = sent(subjects.update),
                    !.cp = WriteCheckpoint(in.read.val),
                    !.n = @ + 1]
    ELSE [st EXCEPT !.mails = sent(subjects.no_update), !.n = @ + 1]

RootCycle(st, in) == PollLoopCycle(st, in, RootSubjects)

\* mutant: a missing checkpoint file is read as "no previous value"
SrcCycle_MissingIsUpdate(st, in) ==
    IF st.running /\ st.n = 0 /\ in.login = "ok" /\ in.read.res = "ok"
       /\ ~st.cp.exists
    THEN [st EXCEPT !.mails = Append(st.mails, SrcSubjects.update),
                    !.cp = WriteCheckpoint(in.read.val),
                    !.n = @ + 1]
    ELSE PollLoopCycle(st, in, SrcSubjects)

SrcCycle(st, in) == PollLoopCycle(st, in, SrcSubjects)

\* check_for_updates() of the alpha script, then time.sleep in its main():
\* a session of its own in every call; each TimeoutException and every other
\* exception ends in the error mail and the function returns; a missing
\* checkpoint file gives last_updated_date = None, which differs from every
\* page text; there is a mail for an update only.
AlphaCycle(st, in) ==
    IF in.login /= "ok" \/ in.read.res /= "ok"
    THEN [st EXCEPT !.mails = Append(st.mails, ERROR_SUBJECT), !.n = @ + 1]
    ELSE IF ~st.cp.exists \/ in.read.val /= Strip(st.cp.content)
    THEN [st EXCEPT !.mails = Append(st.mails, "IRCC Portal Update"),
                    !.cp = [exists |-> TRUE, content |-> in.read.val],
                    !.n = @ + 1]
    ELSE [st EXCEPT !.n = @ + 1]

CycleOf(v, st, in) ==
    IF v = "alpha" THEN AlphaCycle(st, in)
    ELSE IF v = "root" THEN RootCycle(st, in)
    ELSE SrcCycle(st, in)

InitVariants ==
    /\ pc = "variants"
    /\ i = 1
    /\ j = 1
    /\ elapsed = 0
    /\ driver = 0
    /\ made = 0
    /\ live = {}
    /\ cp \in {[exists |-> FALSE, content |-> <<>>]}
              \cup {[exists |-> TRUE, content |-> v] : v \in StatusValues}
    /\ cp0 = cp
    /\ dirExists = TRUE
    /\ files = {}
    /\ updated_date = <<>>
    /\ update = FALSE
    /\ exc = "none"
    /\ exitCode = -1
    /\ trace = <<>>
    /\ keep = NUM_SCREENSHOTS_TO_KEEP
    /\ before = <<>>
    /\ runs = [v \in Variants |-> NewRun(cp)]

\* every script that still runs makes its next cycle, on the same outcomes
VariantCycle ==
    /\ pc = "variants"
    /\ \E v \in Variants : runs[v].running /\ runs[v].n < MaxVariantCycles
    /\ \E in \in PortalOutcomes :
        runs' = [v \in Variants |->
                    IF runs[v].running THEN CycleOf(v, runs[v], in) ELSE runs[v]]
    /\ UNCHANGED <<pc, i, j, elapsed, driver, made, live, cp, cp0, dirExists,
                   files, updated_date, update, exc, exitCode, trace, keep,
                   before>>

NextVariants == VariantCycle

VariantSpec == InitVariants /\ [][NextVariants]_vars

\* ---------------------------------------- the sessions of the alpha script
\* main() of src/check_ircc_updates_alpha.py: check_for_updates(), then
\* time.sleep(CHECK_INTERVAL_SECONDS), for ever. made and live count the
\* sessions of this script; runs["alpha"] is its checkpoint and its mails.
MaxAlphaCycles == 2

\* driver.quit() is the last statement of the try block: it is reached when
\* no TimeoutException has returned early and nothing has raised before it
AlphaReleases(in) == in.login = "ok" /\ in.read.res = "ok"

InitAlpha ==
    /\ pc = "alpha_sleep"
    /\ i = 1
    /\ j = 1
    /\ elapsed = 0
    /\ driver = 0
    /\ made = 0
    /\ live = {}
    /\ cp \in {[exists |-> FALSE, content |-> <<>>]}
              \cup {[exists |-> TRUE, content |-> v] : v \in StatusValues}
    /\ cp0 = cp
    /\ dirExists = TRUE
    /\ files = {}
    /\ updated_date = <<>>
    /\ update = FALSE
    /\ exc = "none"
    /\ exitCode = -1
    /\ trace = <<>>
    /\ keep = NUM_SCREENSHOTS_TO_KEEP
    /\ before = <<>>
    /\ runs = [v \in Variants |-> NewRun(cp)]

\* one call of check_for_updates() and the sleep after it. webdriver.Safari()
\* may raise (no session then, the except clause sends the error mail);
\* otherwise the call has a session of its own
AlphaCheck ==
    /\ pc = "alpha_sleep"
    /\ runs["alpha"].n < MaxAlphaCycles
    /\ \E created \in BOOLEAN, in \in PortalOutcomes :
        IF created
        THEN /\ made' = made + 1
             /\ live' = IF AlphaReleases(in) THEN live ELSE live \cup {made + 1}
             /\ runs' = [runs EXCEPT !["alpha"] = AlphaCycle(@, in)]
             /\ trace' = trace \o
                    <<Ev("create", made + 1, "", "ok", <<>>),
                      Ev("login", made + 1, "", in.login, <<>>)>>
                    \o (IF in.login = "ok"
                        THEN <<Ev("read", made + 1, "", in.read.res, in.read.val)>>
                        ELSE <<>>)
                    \o (IF AlphaReleases(in)
                        THEN <<Ev("quit", made + 1, "", "", <<>>)>>
                        ELSE <<>>)
                    \o <<Ev("sleep", 0, "", "", <<>>)>>
        ELSE /\ runs' = [runs EXCEPT
                            !["alpha"].mails = Append(@, ERROR_SUBJECT),
                            !["alpha"].n = @ + 1]
             /\ trace' = Append(trace, Ev("sleep", 0, "", "", <<>>))
             /\ UNCHANGED <<made, live>>
    /\ elapsed' = elapsed + CHECK_INTERVAL_SECONDS
    /\ UNCHANGED <<pc, i, j, driver, cp, cp0, dirExists, files, updated_date,
                   update, exc, exitCode, keep, before>>

NextAlpha == AlphaCheck

AlphaSpec == InitAlpha /\ [][NextAlpha]_vars

\* =================================================================== claims
\* Reading the trace: the events of the check cycle that started last.
LastCycleIdx ==
    IF \E k \in DOMAIN trace : trace[k].op = "cycle"
    THEN CHOOSE k \in DOMAIN trace :
            /\ trace[k].op = "cycle"
            /\ \A l \in DOMAIN trace : trace[l].op = "cycle" => l <= k
    ELSE 0
CycleIdx == {k \in DOMAIN trace : k > LastCycleIdx /\ LastCycleIdx > 0}
NumEmails(kind) ==
    Cardinality({k \in CycleIdx : trace[k].op = "email" /\ trace[k].arg = kind})
NumOps(op) == Cardinality({k \in CycleIdx : trace[k].op = op})
HasRead == \E k \in CycleIdx : trace[k].op = "read" /\ trace[k].res = "ok"
CurrentRead ==
    trace[CHOOSE k \in CycleIdx : trace[k].op = "read" /\ trace[k].res = "ok"].val
FailureResults ==
    {"timeout", "other", "notfound", "raise", "fail", "trunc", "failed",
     "chrome_fail", "maximize_fail", "nofile"}
\* the cycle met no failure at all, notification transport included
NoFailure == \A k \in CycleIdx : trace[k].res \notin FailureResults
\* the cycle ended in an error other than a notification transport error
CycleErrored ==
    \E k \in CycleIdx : trace[k].res \in (FailureResults \ {"failed"})
\* the cycle that started last is over: the loop is back at its top, or the
\* process has exited
CycleOver == LastCycleIdx > 0 /\ pc \in {"loop_top", "exited"}

C2_SameValueIsNoUpdate ==
    (CycleOver /\ NoFailure /\ HasRead /\ cp0.exists /\ cp0.content = CurrentRead)
    => /\ NumOps("ckwrite") = 0
       /\ cp = cp0
       /\ NumEmails("NO_UPDATE") = 1
       /\ NumEmails("UPDATE") = 0

\* C3: a cycle that starts without a checkpoint file and reads b sends one
\* UPDATE notification, creates the file with content b, and the loop goes on
\* (the process does not exit).
C3_FirstRunIsUpdate ==
    (CycleOver /\ ~cp0.exists /\ HasRead
        /\ \A k \in CycleIdx : trace[k].op \in {"shot", "email", "ckwrite", "purge"}
                                => trace[k].res \notin FailureResults)
    => /\ NumEmails("UPDATE") = 1
       /\ cp = [exists |-> TRUE, content |-> CurrentRead]
       /\ pc = "loop_top"
       /\ exitCode = -1

\* C4: when the status read of a cycle times out, the process sends exactly
\* one ERROR notification and no UPDATE or NO_UPDATE notification, exits with
\* a non-zero status, and the checkpoint file is as before the cycle.
C4_ReadTimeoutIsFatal ==
    (CycleOver /\ \E k \in CycleIdx : trace[k].op = "read" /\ trace[k].res = "timeout")
    => /\ NumEmails("ERROR") = 1
       /\ NumEmails("UPDATE") = 0
       /\ NumEmails("NO_UPDATE") = 0
       /\ pc = "exited"
       /\ exitCode > 0
       /\ cp = cp0

\* C5: between cycles and at exit the checkpoint file holds the value read in
\* the most recent cycle that completed without error, and a cycle that ended
\* in an error has not changed the checkpoint file.
C5_CheckpointReflectsLastGoodCycle ==
    CycleOver =>
        /\ (~CycleErrored /\ HasRead)
            => (cp.content = CurrentRead \/ ReadCheckpoint(cp) = CurrentRead)
        /\ CycleErrored => cp = cp0

\* position in the trace of the first event e with e.op = op and e.sid = sid
FirstIdx(tr, op, sid) ==
    CHOOSE k \in DOMAIN tr :
        /\ tr[k].op = op /\ tr[k].sid = sid
        /\ \A l \in DOMAIN tr : (tr[l].op = op /\ tr[l].sid = sid) => k <= l

\* C6: when a cycle starts with more than reinit_interval elapsed since the
\* session was created, the old session is quit first, the new one is created
\* after that, and the login of the cycle is called on the new session; when
\* no more than reinit_interval has elapsed the session is kept as it is.
C6_ReinitOnlyWhenIntervalExceeded ==
    /\ [][(pc = "loop_top" /\ pc' /= "loop_top"
            /\ elapsed > REINITIALIZATION_INTERVAL)
          => pc' = "reinit"]_vars
    /\ [][pc = "reinit"
          => /\ driver \notin live'
             /\ trace'[Len(trace) + 1] = Ev("quit", driver, "", "reinit", <<>>)
             /\ pc' = "login"
                => /\ driver' = made + 1
                   /\ driver' /= driver
                   /\ made' = made + 1
                   /\ FirstIdx(trace', "quit", driver)
                        < FirstIdx(trace', "create", driver')]_vars
    /\ [][(pc = "loop_top" /\ pc' /= "loop_top"
            /\ elapsed <= REINITIALIZATION_INTERVAL)
          => /\ pc' = "login"
             /\ driver' = driver
             /\ live' = live
             /\ made' = made]_vars
    /\ [][(pc = "login" /\ pc' /= "login")
          => /\ trace'[Len(trace')].op = "login"
             /\ trace'[Len(trace')].sid = driver
             /\ NumOps("create") = 1 => driver = made]_vars

\* a second cycle has reinitialised and called login on the session it created,
\* after a first cycle that kept the initial session
C6_Witness ==
    /\ pc = "login_failed"
    /\ j = 2
    /\ driver = 2
    /\ trace[Len(trace)].op = "login"
    /\ trace[Len(trace)].sid = 2
    /\ \E k \in DOMAIN trace : trace[k].op = "login" /\ trace[k].sid = 1

\* C7: by the time the process has exited, every session ever created has
\* been quit.
C7_AllSessionsReleasedAtExit ==
    pc = "exited" => live = {}

\* C8: when the login of a cycle fails, the process takes a screenshot, sends
\* exactly one ERROR notification, reads no status, neither reads nor writes
\* the checkpoint file in that cycle, and exits with a non-zero status.
C8_LoginFailureIsFatal ==
    (CycleOver /\ \E k \in CycleIdx : trace[k].op = "login" /\ trace[k].res /= "ok")
    => /\ \E k \in CycleIdx : trace[k].op = "shot" /\ trace[k].res = "ok"
       /\ NumEmails("ERROR") = 1
       /\ NumOps("read") = 0
       /\ NumOps("ckread") = 0
       /\ NumOps("ckwrite") = 0
       /\ cp = cp0
       /\ pc = "exited"
       /\ exitCode > 0

\* C9: a cycle calls login at most once and reads the status at most once,
\* and once a login or a status read has failed the process calls neither
\* again; having exited, the process does nothing more.
C9_NoRetry ==
    /\ \A k, l \in DOMAIN trace :
        (k < l /\ trace[k].op = trace[l].op /\ trace[k].op \in {"login", "read"})
        => \E m \in k..l : trace[m].op = "cycle"
    /\ \A k, l \in DOMAIN trace :
        (k < l /\ trace[k].op \in {"login", "read"} /\ trace[k].res /= "ok")
        => trace[l].op \notin {"login", "read", "cycle"}
    /\ \A k \in DOMAIN trace : trace[k].op = "exit" => k = Len(trace)

\* the process has exited after a failed login or a failed status read
C9_Witness ==
    /\ pc = "exited"
    /\ \E k \in DOMAIN trace :
        trace[k].op \in {"login", "read"} /\ trace[k].res /= "ok"
    /\ \E k \in DOMAIN trace : trace[k].op = "read" /\ trace[k].res = "timeout"

\* C10: with purging enabled, every cycle that has started and ended has run
\* the retention policy exactly once, whatever its outcome.
C10_PurgeOncePerCycle ==
    (CycleOver /\ PURGE_SCREENSHOTS) => NumOps("purge") = 1

\* ----------------------------------------- claims about the retention policy
Artifacts(fs) == {f \in fs : f.name /= GITKEEP}
HasPlaceholder(fs) == \E f \in fs : f.name = GITKEEP
\* the n most recently modified files of fs
Newest(fs, n) == {f \in fs : Cardinality({g \in fs : g.mt > f.mt}) < n}
\* the last thing done was a call of purge_old_screenshots
JustPurged ==
    /\ pc = "purge_idle"
    /\ trace /= <<>>
    /\ trace[Len(trace)].op = "purge"
Listed == before[Len(before)]

\* C11: a call on a directory with the placeholder and N > k screenshots leaves
\* k + 1 entries: the placeholder and the k most recently modified screenshots,
\* wherever the modification time of the placeholder lies.
C11_KeepsNewestAndPlaceholder ==
    (JustPurged /\ trace[Len(trace)].res = "ok" /\ HasPlaceholder(Listed)
        /\ Cardinality(Artifacts(Listed)) > keep)
    => /\ Cardinality(files) = keep + 1
       /\ HasPlaceholder(files)
       /\ Artifacts(files) = Newest(Artifacts(Listed), keep)

\* C12: a call never removes the placeholder: present before, present after.
C12_PlaceholderSurvives ==
    (JustPurged /\ HasPlaceholder(Listed)) => HasPlaceholder(files)

\* C13: a call on an existing directory with N <= k screenshots (with or
\* without the placeholder, empty directory included) raises nothing and
\* leaves the set of files unchanged.
C13_NoOpWhenFewFiles ==
    (JustPurged /\ dirExists /\ Cardinality(Artifacts(Listed)) <= keep)
    => /\ trace[Len(trace)].res = "ok"
       /\ files = Listed

C13_Witness ==
    /\ JustPurged /\ dirExists
    /\ HasPlaceholder(Listed)
    /\ Cardinality(Artifacts(Listed)) = keep
    /\ keep >= 1
    /\ files = Listed

\* C14: a call that follows a call that returned, with no file added in
\* between, removes nothing: two calls leave what one call leaves.
C14_Idempotent ==
    (JustPurged /\ Len(trace) >= 2
        /\ trace[Len(trace) - 1].op = "purge" /\ trace[Len(trace) - 1].res = "ok")
    => /\ trace[Len(trace)].res = "ok"
       /\ files = Listed

\* the first of two calls in a row has removed files, the second none
C14_Witness ==
    /\ JustPurged /\ Len(trace) >= 2
    /\ trace[Len(trace) - 1].op = "purge" /\ trace[Len(trace) - 1].res = "ok"
    /\ Len(before) >= 2
    /\ Cardinality(before[Len(before) - 1]) > Cardinality(Listed)
    /\ files = Listed

\* ------------------------------------------- claims about failure handling
FailedEmail(kinds) ==
    \E k \in CycleIdx :
        trace[k].op = "email" /\ trace[k].res = "failed" /\ trace[k].arg \in kinds
\* nothing but notifications failed in the cycle
OnlyEmailsFailed ==
    \A k \in CycleIdx : trace[k].res \in FailureResults => trace[k].op = "email"

\* C15: a transport failure of a notification never aborts the process and
\* changes nothing else: after a failed UPDATE or NO_UPDATE notification the
\* cycle goes on to the retention step, the sleep and the next cycle, with the
\* checkpoint it would have had; after a failed ERROR notification the process
\* still exits with a non-zero status.
C15_NotificationFailureNotFatal ==
    /\ (CycleOver /\ OnlyEmailsFailed /\ FailedEmail({"UPDATE", "NO_UPDATE"}))
        => /\ pc = "loop_top"
           /\ exitCode = -1
           /\ exc = "none"
           /\ NumOps("purge") = 1
           /\ NumOps("sleep") = 1
           /\ NumOps("email") = 1
           /\ FailedEmail({"UPDATE"}) => cp = WriteCheckpoint(CurrentRead)
           /\ FailedEmail({"NO_UPDATE"}) => cp = cp0
    /\ (pc = "exited" /\ FailedEmail({"ERROR"})) => exitCode > 0
    /\ (FailedEmail({"ERROR"}) /\ pc \notin {"unwind", "exited"})
        => (pc = "finally" /\ exc = "SystemExit")

\* a cycle whose UPDATE notification failed has ended with the loop going on
C15_Witness ==
    /\ CycleOver /\ OnlyEmailsFailed /\ FailedEmail({"UPDATE"})
    /\ pc = "loop_top"
    /\ i = 2
    /\ cp = WriteCheckpoint(CurrentRead)
    /\ cp /= cp0

\* a login or a status read of the cycle that started last has failed
PortalFailure ==
    \E k \in CycleIdx :
        /\ trace[k].op \in {"login", "read"}
        /\ trace[k].res \in {"timeout", "other"}
SetupFailure ==
    \E k \in DOMAIN trace : trace[k].res \in {"chrome_fail", "maximize_fail"}

\* C16: the process ends only through an authentication failure or a
\* status-read failure: when a cycle has started and the browser sessions
\* were all created, an exited process has a failed login or a failed status
\* read in its last cycle (a missing checkpoint, a checkpoint write error, a
\* capture failure, a notification failure or a retention failure alone never
\* ends it).
C16_AbortOnlyOnLoginOrReadFailure ==
    (pc = "exited" /\ LastCycleIdx > 0 /\ ~SetupFailure) => PortalFailure

PurgeRaised ==
    \E k \in CycleIdx : trace[k].op = "purge" /\ trace[k].res = "raise"
OnlyPurgeFailed ==
    \A k \in CycleIdx : trace[k].res \in FailureResults => trace[k].op = "purge"

\* C17: a failure inside the retention step is never fatal: in a cycle where
\* nothing else failed, a failed purge_old_screenshots call raises nothing in
\* main() and the loop goes on to sleep and to the next cycle.
C17_RetentionFailureNotFatal ==
    (PurgeRaised /\ OnlyPurgeFailed)
    => /\ exc = "none"
       /\ pc = "loop_top"
       /\ NumOps("sleep") = 1
       /\ exitCode = -1

\* the capture made while a failed login or status read is handled has failed
HandlerCaptureFailed ==
    \E k \in CycleIdx, l \in CycleIdx :
        /\ k < l
        /\ trace[k].op \in {"login", "read"}
        /\ trace[k].res \in {"timeout", "other"}
        /\ trace[l].op = "shot"
        /\ trace[l].res = "raise"

\* C18: when the capture fails while a fatal login or status-read failure is
\* handled, the ERROR notification is still sent and the process still ends
\* with a non-zero exit status.
C18_ErrorMailDespiteCaptureFailure ==
    (pc = "exited" /\ HandlerCaptureFailed)
    => /\ NumEmails("ERROR") = 1
       /\ exitCode > 0

\* ------------------------------------------ claims about the script variants
\* the kind of notification a mail is, by its subject
KindOf(subject) ==
    IF subject = ERROR_SUBJECT THEN "ERROR"
    ELSE IF subject \in {RootSubjects.update, SrcSubjects.update} THEN "UPDATE"
    ELSE IF subject \in {RootSubjects.no_update, SrcSubjects.no_update}
    THEN "NO_UPDATE"
    ELSE "OTHER"
Kinds(v) == [k \in DOMAIN runs[v].mails |-> KindOf(runs[v].mails[k])]
Observed(v) ==
    [kinds |-> Kinds(v), cp |-> runs[v].cp, running |-> runs[v].running]

Overwriting == LastCycleIdx > 0 /\ update /\ pc \in {"write", "write_close"}

\* C20: while a cycle overwrites the checkpoint value a with the value b, what
\* a reader finds in the file at any moment is a or b, never an empty or
\* partial value.
C20_ReaderSeesOldOrNew ==
    Overwriting => cp \in {cp0, WriteCheckpoint(updated_date)}

\* ------------------------------------------ claims about the single steps
\* the events a step adds to the trace
Added == {k \in DOMAIN trace' : k > Len(trace)}

\* C21: a call of take_screenshot(driver, update) that returns has made the
\* artifact directory if it was missing and has left a new file in it, whose
\* name carries the tag 'update' when update is true and 'no_update'
\* otherwise.
C21_ScreenshotReturnsExistingFile ==
    [][\A k \in Added :
        (trace'[k].op = "shot" /\ trace'[k].res /= "raise")
        => /\ dirExists'
           /\ trace'[k].arg = (IF pc = "notify" /\ update
                               THEN "update" ELSE "no_update")
           /\ \E f \in files' \ files : f.name = trace'[k].arg]_vars

\* ----------------------------------------- more claims about the retention
\* the last thing done was a call of purge_old_screenshots that returned
PurgeReturned == JustPurged /\ trace[Len(trace)].res = "ok"

LandedOn(us) ==
    \E k \in CycleIdx : trace[k].op = "login" /\ trace[k].arg \in us

\* C23: a status read is attempted in a cycle only after the login of the same
\* cycle ended on the dashboard URL; when the browser is on another URL after
\* the submission, the login raises and the cycle has no status read, no
\* checkpoint access and no UPDATE or NO_UPDATE notification.
C23_ReadOnlyAfterDashboard ==
    /\ NumOps("read") > 0
        => \E k \in CycleIdx :
            /\ trace[k].op = "login"
            /\ trace[k].res = "ok"
            /\ trace[k].arg = DASHBOARD_URL
            /\ \A l \in CycleIdx : trace[l].op = "read" => k < l
    /\ LandedOn(PageUrls \ {DASHBOARD_URL})
        => /\ \E k \in CycleIdx : trace[k].op = "login" /\ trace[k].res = "other"
           /\ exc /= "none"
           /\ pc \in {"login_failed", "unwind", "exited"}
           /\ NumOps("read") = 0
           /\ NumOps("ckread") = 0
           /\ NumOps("ckwrite") = 0
           /\ NumEmails("UPDATE") = 0
           /\ NumEmails("NO_UPDATE") = 0
           /\ cp = cp0

\* the first login stayed on the login page and the process has ended
C23_Witness ==
    /\ LandedOn({LOGIN_URL})
    /\ pc = "exited"
    /\ exitCode = 1
    /\ NumEmails("ERROR") = 1

\* --------------------------------------- claims about the order of the steps
\* before event k of the cycle: a capture tagged 'update' that returned, then
\* the UPDATE notification for the value v
NotifiedBefore(k, v) ==
    \E a \in CycleIdx, b \in CycleIdx :
        /\ a < b /\ b < k
        /\ trace[a].op = "shot" /\ trace[a].arg = "update" /\ trace[a].res /= "raise"
        /\ trace[b].op = "email" /\ trace[b].arg = "UPDATE" /\ trace[b].val = v

\* C24: in an update event the steps come in the order capture, UPDATE
\* notification, checkpoint write: the checkpoint file is not touched before
\* send_email has been called with the UPDATE notification for the new value.
C24_NotifyBeforeWrite ==
    /\ \A k \in CycleIdx :
        trace[k].op = "ckwrite" => NotifiedBefore(k, trace[k].val)
    /\ (LastCycleIdx > 0 /\ (cp /= cp0 \/ pc \in {"write", "write_close"}))
        => NotifiedBefore(Len(trace) + 1, updated_date)
    /\ \A k \in CycleIdx :
        (trace[k].op = "email" /\ trace[k].arg = "UPDATE")
        => /\ k - 1 \in CycleIdx
           /\ trace[k - 1].op = "shot"
           /\ trace[k - 1].arg = "update"

\* an update has been captured, notified and then written
C24_Witness ==
    /\ pc = "finally"
    /\ exc = "none"
    /\ cp /= cp0
    /\ cp = WriteCheckpoint(updated_date)
    /\ \E k \in CycleIdx : trace[k].op = "ckwrite" /\ trace[k].res = "ok"
    /\ NumEmails("UPDATE") = 1

\* the events of kind op strictly between the events a and b
Between(a, b, op) == {k \in DOMAIN trace : a < k /\ k < b /\ trace[k].op = op}

\* C25: between two consecutive login attempts there is exactly one sleep of
\* CHECK_INTERVAL_SECONDS, and it follows the purge of the earlier cycle.
C25_OneSleepBetweenLogins ==
    \A a \in DOMAIN trace, b \in DOMAIN trace :
        (a < b /\ trace[a].op = "login" /\ trace[b].op = "login"
            /\ Between(a, b, "login") = {})
        => /\ Cardinality(Between(a, b, "sleep")) = 1
           /\ Cardinality(Between(a, b, "purge")) = 1
           /\ \A p \in Between(a, b, "purge"), z \in Between(a, b, "sleep") :
                p < z /\ trace[p].res = "ok"
           /\ elapsed >= CHECK_INTERVAL_SECONDS \/ j > 1

\* a second login has been attempted
C25_Witness ==
    /\ Cardinality({k \in DOMAIN trace : trace[k].op = "login"}) = 2
    /\ NumOps("login") = 1
    /\ i = 2

\* ------------------------------------------------ claims about the sessions
\* the event that starts the cycle to which event k belongs
CycleStart(k) ==
    CHOOSE c \in DOMAIN trace :
        /\ c < k
        /\ trace[c].op = "cycle"
        /\ \A l \in DOMAIN trace : (c < l /\ l < k) => trace[l].op /= "cycle"
Logins == {k \in DOMAIN trace : trace[k].op = "login"}

\* C26: with REINITIALIZATION_INTERVAL = CHECK_INTERVAL_SECONDS / 2 and a sleep
\* of CHECK_INTERVAL_SECONDS after each cycle, the first cycle logs in on the
\* initial session without re-initialisation, every later cycle begins by
\* quitting the session and creating a new one on which it logs in, and no
\* session serves the login or the status read of two cycles.
C26_NewSessionEveryLaterCycle ==
    /\ \A k \in Logins :
        LET c == CycleStart(k)
        IN IF trace[c].sid = 1
           THEN k = c + 1 /\ trace[k].sid = 1
           ELSE /\ k = c + 4
                /\ trace[c + 1].op = "quit" /\ trace[c + 1].res = "reinit"
                /\ trace[c + 2].op = "create" /\ trace[c + 2].res = "ok"
                /\ trace[c + 2].sid /= trace[c + 1].sid
                /\ trace[k].sid = trace[c + 2].sid
    /\ \A a \in Logins, b \in Logins : a /= b => trace[a].sid /= trace[b].sid
    /\ \A r \in DOMAIN trace :
        trace[r].op = "read"
        => \E k \in Logins :
            /\ CycleStart(k) = CycleStart(r)
            /\ k < r
            /\ trace[k].sid = trace[r].sid
    /\ (pc = "reinit") => i > 1
    /\ (pc = "login" /\ i > 1) => j = i

\* the second cycle has logged in on the session made at its beginning
C26_Witness ==
    /\ Cardinality(Logins) = 2
    /\ \E k \in Logins : trace[k].sid = 2 /\ trace[CycleStart(k)].sid = 2
    /\ j = 2

\* quit has been called on the session of event k before event k
ReleasedBefore(k) ==
    \E q \in DOMAIN trace :
        q < k /\ trace[q].op = "quit" /\ trace[q].sid = trace[k].sid

\* C27: login, check_for_updates and take_screenshot are never called with a
\* session on which quit has been called, the cycle that follows a
\* re-initialisation included.
C27_NoUseAfterRelease ==
    /\ \A k \in DOMAIN trace :
        trace[k].op \in {"login", "read", "shot"} => ~ReleasedBefore(k)
    /\ pc \in {"login", "login_failed", "check", "notify", "check_failed"}
        => driver \in live

\* a session could not be created, at the start or at a re-initialisation
CreationFailed ==
    \/ LastCycleIdx = 0 /\ pc \in {"unwind", "exited"}
    \/ \E k \in DOMAIN trace :
        /\ trace[k].op = "quit" /\ trace[k].res = "reinit"
        /\ \/ k = Len(trace)
           \/ trace[k + 1].op /= "create"
           \/ trace[k + 1].res /= "ok"

\* something the claim assumes away has happened: a failure other than that
\* of a call made on a session already released
AssumptionBroken ==
    \/ \E k \in DOMAIN trace :
        /\ trace[k].res \in FailureResults
        /\ ~(trace[k].op \in {"login", "read", "shot"} /\ ReleasedBefore(k))
    \/ CreationFailed

\* C28: when every login on a live session succeeds, every status read
\* yields a value, the checkpoint file exists, and capture, notification,
\* checkpoint write, retention and session creation never fail, the loop
\* never leaves main(): it goes on starting check cycles, across
\* re-initialisations as well.
C28_RunsForeverWithoutFailures ==
    pc \in {"unwind", "exited"} => AssumptionBroken

\* C29: on a fatal failure the process ends without sleeping: no sleep of
\* CHECK_INTERVAL_SECONDS lies between the ERROR notification and the end of
\* the process, after a failed status read as after a failed login.
C29_NoSleepAfterErrorMail ==
    pc = "exited"
    => \A k \in DOMAIN trace, z \in DOMAIN trace :
        (trace[k].op = "email" /\ trace[k].arg = "ERROR" /\ trace[z].op = "sleep")
        => z < k

\* --------------------------------------- claims about the checkpoint values
\* the cycle has read from the page the value b that an update cycle writing
\* b has left in the checkpoint file
ReadsWhatWasWritten ==
    LastCycleIdx > 0 /\ HasRead /\ cp0 = WriteCheckpoint(CurrentRead)

\* C30: checkpoint round trip: for every value b, surrounding whitespace and
\* the empty string included, a cycle that reads b from the page when the
\* file holds what an update cycle has written for b is a no-update event
\* and does not write the checkpoint file.
C30_CheckpointRoundTrip ==
    ReadsWhatWasWritten
    => /\ pc \notin {"write", "write_close"}
       /\ NumOps("ckwrite") = 0
       /\ NumEmails("UPDATE") = 0
       /\ pc \in {"notify", "finally"} => ~update

\* C31: when the transport of the UPDATE notification fails in an update
\* event, the checkpoint file is overwritten with the new value all the same,
\* and a following cycle that reads the same value compares it as no update:
\* the update is not announced again.
C31_FailedUpdateMailIsLost ==
    (CycleOver /\ OnlyEmailsFailed /\ FailedEmail({"UPDATE"}))
    => /\ cp = WriteCheckpoint(CurrentRead)
       /\ ~IsUpdate(CurrentRead, ReadCheckpoint(cp))

\* C32: with the placeholder file in the artifact directory at the start,
\* after every purge at the end of a cycle the directory holds at most
\* NUM_SCREENSHOTS_TO_KEEP artifact files, however many screenshots and
\* purges came before.
C32_AtMostKeepArtifactsAfterCycle ==
    (PurgeReturned /\ HasPlaceholder(before[1]) /\ keep = NUM_SCREENSHOTS_TO_KEEP)
    => Cardinality(Artifacts(files)) <= keep

\* the events at which a session came into being
Creations == {k \in DOMAIN trace : trace[k].op = "create"}

\* C33: at most one session is unreleased at any time: a session is created
\* only after quit has been called on every session created before it.
C33_AtMostOneLiveSession ==
    /\ Cardinality(live) <= 1
    /\ \A k \in Creations, c \in Creations :
        c < k => \E q \in DOMAIN trace :
                    /\ c < q /\ q < k
                    /\ trace[q].op = "quit"
                    /\ trace[q].sid = trace[c].sid

\* the second session exists, the first one has been quit
C33_Witness ==
    /\ made = 2
    /\ live = {2}
    /\ Cardinality(Creations) = 2

\* the calls of quit on the session sid
Quits(sid) == {k \in DOMAIN trace : trace[k].op = "quit" /\ trace[k].sid = sid}

\* C34: quit is never called a second time on a session that was already
\* released, neither at a re-initialisation nor when the process exits.
C34_QuitAtMostOnce ==
    \A k \in Creations : Cardinality(Quits(trace[k].sid)) <= 1

\* ------------------------------------------- claims about the alpha script
\* C35: in the alpha script every call of check_for_updates releases the
\* session it has created before it returns, on every path, so that no
\* session is unreleased while the loop sleeps.
C35_AlphaReleasesEverySession ==
    pc = "alpha_sleep" => live = {}
====
